---- MODULE Spec2Model ----
(***************************************************************************)
(* Kanban task board: the local task store (services/taskApi.ts), the      *)
(* React Query hooks that wrap it (hooks/useTasks.ts,                      *)
(* hooks/usePaginatedColumnTasks.ts), the zustand UI store                 *)
(* (stores/kanbanStore.ts), the search bar and the board's drag handlers.  *)
(***************************************************************************)
EXTENDS Integers, Sequences, FiniteSets, TLC

(***************************************************************************)
(* Bounds of the model.                                                    *)
(***************************************************************************)
MaxCalls == 3        \* store calls made in one run, overlapping or not
MaxArgId == 3        \* largest id an update or delete request names
MaxLen == 4          \* longest collection a paginated read is tried on
MaxLimit == 3        \* largest page size a paginated read is tried with

(***************************************************************************)
(* Strings are sequences of one-character strings.                         *)
(***************************************************************************)
Columns == {"backlog", "in-progress", "review", "done"}

\* the columns the modelled requests name
DraftColumns == {"backlog"}
MoveColumns == {"done"}

Lower(c) == IF c = "A" THEN "a" ELSE IF c = "B" THEN "b" ELSE c

\* String.prototype.toLowerCase
ToLowerCase(s) == [i \in 1..Len(s) |-> Lower(s[i])]

RECURSIVE TrimStart(_)
TrimStart(s) == IF s # <<>> /\ Head(s) = " " THEN TrimStart(Tail(s)) ELSE s

RECURSIVE TrimEnd(_)
TrimEnd(s) ==
    IF s # <<>> /\ s[Len(s)] = " " THEN TrimEnd(SubSeq(s, 1, Len(s) - 1)) ELSE s

\* String.prototype.trim
Trim(s) == TrimEnd(TrimStart(s))

\* String.prototype.includes
Includes(s, q) ==
    \E i \in 0..(Len(s) - Len(q)) : SubSeq(s, i + 1, i + Len(q)) = q

\* Array.prototype.slice(start, end), negative indices included
Slice(s, start, end) ==
    LET n == Len(s)
        from == IF start < 0 THEN (IF n + start < 0 THEN 0 ELSE n + start)
                ELSE (IF start > n THEN n ELSE start)
        to == IF end < 0 THEN (IF n + end < 0 THEN 0 ELSE n + end)
              ELSE (IF end > n THEN n ELSE end)
    IN  IF from >= to THEN <<>> ELSE SubSeq(s, from + 1, to)

Ids(s) == {s[i].id : i \in 1..Len(s)}

MaxOf(S) == IF S = {} THEN 0 ELSE CHOOSE m \in S : \A x \in S : x <= m

(***************************************************************************)
(* The task store, services/taskApi.ts.                                    *)
(***************************************************************************)
Task(i, t, d, c) == [id |-> i, title |-> t, description |-> d, column |-> c]

\* what the remote seed source answers
SeedTasks ==
    << Task(1, <<"A", "b">>, <<"b">>, "backlog"),
       Task(2, <<"b">>, <<"b", " ", "b">>, "review") >>

\* generateId over the stored collection
generateId(tasks) == MaxOf(Ids(tasks)) + 1

\* the search predicate of fetchTasks / fetchTasksByColumn
SearchActive(search) == search # <<>> /\ Trim(search) # <<>>

MatchesSearch(task, search) ==
    LET searchTerm == Trim(ToLowerCase(search))
    IN  \/ Includes(ToLowerCase(task.title), searchTerm)
        \/ Includes(ToLowerCase(task.description), searchTerm)

IndexOfId(tasks, id) ==
    IF id \in Ids(tasks)
    THEN CHOOSE i \in 1..Len(tasks) :
            tasks[i].id = id /\ \A j \in 1..(i - 1) : tasks[j].id # id
    ELSE 0

RemoveAt(s, i) == SubSeq(s, 1, i - 1) \o SubSeq(s, i + 1, Len(s))

VARIABLES
    storage,        \* localStorage["kanban-tasks"], the parsed array
    initFlag,       \* localStorage["kanban-initialized"] = "true"
    calls,          \* the store calls: operation, arguments, position
    fetchCount,     \* remote seed fetches issued so far
    maxEver,        \* the largest id that has ever been in the collection
    pgQuery,        \* a paginated read: its column, search string and page size
    pgResult,       \* the response to the last page read
    pgItems,        \* the items of the pages read so far, in page order
    searchQuery,            \* kanbanStore: the committed search string
    columnPaginationState,  \* kanbanStore: per column currentPage, totalPages, ...
    draggedTask,            \* kanbanStore: the task snapshot of the drag session
    isDragging,             \* kanbanStore
    dragOverColumn,         \* kanbanStore: column hovered, or NoTarget
    isTaskFormOpen,         \* kanbanStore
    taskFormMode,           \* kanbanStore: "create" or "edit"
    selectedTask,           \* kanbanStore: the task being edited, or NoTask
    successMessage,         \* KanbanBoard useState
    errorMessage,           \* KanbanBoard useState
    deleteDialogOpen,       \* KanbanBoard useState
    taskToDelete,           \* KanbanBoard useState
    localValue,             \* SearchBar useState: the raw input
    timerPending,           \* SearchBar: a debounce timer is armed
    timerElapsed,           \* ms since the armed timer was set, as far as followed
    dndActive,              \* DndContext: the task of the active draggable
    listQuery,              \* query cache: the entry of key ['tasks','list',{}]
    pageCache,              \* query cache: entries ['tasks','paginated',col,page,search]
    pageFetching,           \* per mounted paginated column: its query is fetching
    muts,                   \* mutation cache: the mutations started, in order
    observed,               \* per mutation hook: the mutation its observer follows
    resetFromPage           \* largest currentPage just before the last search commit

storeVars == <<storage, initFlag, calls, fetchCount, maxEver>>

pageVars == <<pgQuery, pgResult, pgItems>>

zustandVars ==
    <<searchQuery, columnPaginationState, draggedTask, isDragging, dragOverColumn,
      isTaskFormOpen, taskFormMode, selectedTask>>

dragVars == <<draggedTask, isDragging, dragOverColumn, dndActive>>

formVars == <<isTaskFormOpen, taskFormMode, selectedTask>>

searchVars ==
    <<searchQuery, columnPaginationState, localValue, timerPending, timerElapsed,
      resetFromPage>>

noticeVars == <<successMessage, errorMessage>>

dialogVars == <<deleteDialogOpen, taskToDelete>>

queryVars == <<listQuery, pageCache, pageFetching>>

mutVars == <<muts, observed>>

uiVars ==
    <<dragVars, formVars, searchVars, noticeVars, dialogVars, queryVars, mutVars>>

vars == <<storeVars, pageVars, uiVars>>

CallSlots == 1..MaxCalls

IdleCall ==
    [op |-> "none", pc |-> "idle", id |-> 0, column |-> "backlog", result |-> "none",
     maxBefore |-> 0]

NoQuery == [column |-> "backlog", search |-> <<>>, limit |-> 1]

NoResult ==
    [tasks |-> <<>>, total |-> 0, currentPage |-> 0, totalPages |-> 0, limit |-> 1,
     hasMore |-> FALSE]

InitPage ==
    /\ pgQuery = NoQuery
    /\ pgResult = NoResult
    /\ pgItems = <<>>

NoTask == Task(0, <<>>, <<>>, "backlog")

\* `over` is null / no column
NoTarget == "none"

\* initialColumnPaginationState
initialColumnPaginationState ==
    [currentPage |-> 1, totalPages |-> 0, isLoading |-> FALSE, totalTasks |-> 0]

\* a query that has been built and has no data. `orphaned`: a store call of this
\* key, started by a fetch that was cancelled since, is still running
NoData == [hasData |-> FALSE, data |-> <<>>, fetching |-> FALSE, orphaned |-> FALSE]

\* kanbanStore initialState, the components' initial useState values, an empty
\* query cache and mutation cache
InitUiIdle ==
    /\ searchQuery = <<>>
    /\ columnPaginationState = [c \in Columns |-> initialColumnPaginationState]
    /\ draggedTask = NoTask
    /\ isDragging = FALSE
    /\ dragOverColumn = NoTarget
    /\ isTaskFormOpen = FALSE
    /\ taskFormMode = "create"
    /\ selectedTask = NoTask
    /\ successMessage = <<>>
    /\ errorMessage = <<>>
    /\ deleteDialogOpen = FALSE
    /\ taskToDelete = NoTask
    /\ localValue = <<>>
    /\ timerPending = FALSE
    /\ timerElapsed = 0
    /\ dndActive = NoTask
    /\ listQuery = NoData
    /\ pageCache = {}
    /\ pageFetching = <<>>
    /\ muts = <<>>
    /\ observed = [k \in {"create", "update", "delete"} |-> 0]
    /\ resetFromPage = 0

InitStore ==
    /\ InitPage
    /\ InitUiIdle
    /\ storage = <<>>
    /\ initFlag = FALSE
    /\ calls = [i \in CallSlots |-> IdleCall]
    /\ fetchCount = 0
    /\ maxEver = 0

\* A store operation is entered: `await initializeFromAPI()` runs up to its
\* first await. isInitialized() true: it returns; false: fetch() is issued.
StartCall(i, op, id, column) ==
    /\ calls[i].pc = "idle"
    /\ \A j \in CallSlots : j < i => calls[j].pc # "idle"
    /\ calls' = [calls EXCEPT ![i] =
                    [op |-> op, pc |-> IF initFlag THEN "body" ELSE "fetching",
                     id |-> id, column |-> column, result |-> "none", maxBefore |-> 0]]
    /\ fetchCount' = IF initFlag THEN fetchCount ELSE fetchCount + 1
    /\ UNCHANGED <<storage, initFlag, maxEver, pageVars, uiVars>>

\* fetch() resolves with an ok response: `await response.json()` is next
FetchOk(i) ==
    /\ calls[i].pc = "fetching"
    /\ calls' = [calls EXCEPT ![i].pc = "json"]
    /\ UNCHANGED <<storage, initFlag, fetchCount, maxEver, pageVars, uiVars>>

\* an initializeFromAPI without the catch block: the seed error reaches the caller
FetchFail_Rethrow(i) ==
    /\ calls[i].pc = "fetching"
    /\ calls' = [calls EXCEPT ![i].pc = "done", ![i].result = "seederror"]
    /\ UNCHANGED <<storage, initFlag, fetchCount, maxEver, pageVars, uiVars>>

\* fetch() rejects, or the response is not ok: the catch block
FetchFail(i) ==
    /\ calls[i].pc = "fetching"
    /\ storage' = IF Len(storage) = 0 THEN <<>> ELSE storage
    /\ initFlag' = TRUE
    /\ calls' = [calls EXCEPT ![i].pc = "body"]
    /\ UNCHANGED <<fetchCount, maxEver, pageVars, uiVars>>

\* response.json() resolves: saveTasksToStorage(tasks); setInitialized()
JsonDone(i) ==
    /\ calls[i].pc = "json"
    /\ storage' = SeedTasks
    /\ initFlag' = TRUE
    /\ maxEver' = MaxOf({maxEver} \cup Ids(SeedTasks))
    /\ calls' = [calls EXCEPT ![i].pc = "body"]
    /\ UNCHANGED <<fetchCount, pageVars, uiVars>>

\* a createTask that stores every new task under a stage the board does not have
createTask_UnknownStage(tasks, draft) ==
    LET newTask == Task(generateId(tasks), draft.title, draft.description, "todo")
    IN  [tasks |-> Append(tasks, newTask), task |-> newTask, status |-> 200]

\* createTask after the await
createTask(tasks, draft) ==
    LET newTask == Task(generateId(tasks), draft.title, draft.description, draft.column)
    IN  [tasks |-> Append(tasks, newTask), task |-> newTask, status |-> 200]

\* an updateTask that takes the task out and pushes the merged one at the end
updateTask_MoveToEnd(tasks, id, updates) ==
    LET taskIndex == IndexOfId(tasks, id)
    IN  IF taskIndex = 0
        THEN [tasks |-> tasks, task |-> Task(0, <<>>, <<>>, "backlog"), status |-> 404]
        ELSE LET updatedTask ==
                    [k \in DOMAIN tasks[taskIndex] |->
                        IF k \in DOMAIN updates THEN updates[k] ELSE tasks[taskIndex][k]]
             IN  [tasks |-> Append(RemoveAt(tasks, taskIndex), updatedTask),
                  task |-> updatedTask, status |-> 200]

\* updateTask after the await
updateTask(tasks, id, updates) ==
    LET taskIndex == IndexOfId(tasks, id)
    IN  IF taskIndex = 0
        THEN [tasks |-> tasks, task |-> Task(0, <<>>, <<>>, "backlog"), status |-> 404]
        ELSE LET updatedTask ==
                    [k \in DOMAIN tasks[taskIndex] |->
                        IF k \in DOMAIN updates THEN updates[k] ELSE tasks[taskIndex][k]]
             IN  [tasks |-> [tasks EXCEPT ![taskIndex] = updatedTask],
                  task |-> updatedTask, status |-> 200]

\* fetchTask after the await
fetchTask(tasks, id) ==
    LET taskIndex == IndexOfId(tasks, id)
    IN  IF taskIndex = 0
        THEN [tasks |-> tasks, task |-> Task(0, <<>>, <<>>, "backlog"), status |-> 404]
        ELSE [tasks |-> tasks, task |-> tasks[taskIndex], status |-> 200]

\* a deleteTask without the `taskIndex === -1` check: splice(-1, 1) removes the
\* last task
deleteTask_NoIndexCheck(tasks, id) ==
    LET taskIndex == IndexOfId(tasks, id)
    IN  IF taskIndex = 0
        THEN [tasks |-> Slice(tasks, 0, Len(tasks) - 1),
              task |-> Task(0, <<>>, <<>>, "backlog"), status |-> 200]
        ELSE [tasks |-> RemoveAt(tasks, taskIndex),
              task |-> tasks[taskIndex], status |-> 200]

\* deleteTask after the await
deleteTask(tasks, id) ==
    LET taskIndex == IndexOfId(tasks, id)
    IN  IF taskIndex = 0
        THEN [tasks |-> tasks, task |-> Task(0, <<>>, <<>>, "backlog"), status |-> 404]
        ELSE [tasks |-> RemoveAt(tasks, taskIndex),
              task |-> tasks[taskIndex], status |-> 200]

\* Math.ceil(a / b) for a >= 0, b > 0
MathCeilDiv(a, b) == IF a % b = 0 THEN a \div b ELSE (a \div b) + 1

\* the column filter and the search filter, in that order
FilterTasks(tasks, column, search) ==
    LET inColumn == SelectSeq(tasks, LAMBDA t : t.column = column)
    IN  IF SearchActive(search)
        THEN SelectSeq(inColumn, LAMBDA t : MatchesSearch(t, search))
        ELSE inColumn

\* fetchTasksByColumn with the slice starting one page late
fetchTasksByColumn_LatePage(tasks, column, page, limit, search) ==
    LET allTasks == FilterTasks(tasks, column, search)
        totalCount == Len(allTasks)
        totalPages == MathCeilDiv(totalCount, limit)
        startIndex == page * limit
        endIndex == startIndex + limit
    IN  [tasks |-> Slice(allTasks, startIndex, endIndex),
         total |-> totalCount,
         currentPage |-> page,
         totalPages |-> totalPages,
         limit |-> limit,
         hasMore |-> page < totalPages]

\* a fetchTasksByColumn that cuts the page out of the stage before it applies
\* the search
fetchTasksByColumn_SliceFirst(tasks, column, page, limit, search) ==
    LET inColumn == FilterTasks(tasks, column, <<>>)
        startIndex == (page - 1) * limit
        endIndex == startIndex + limit
        paged == Slice(inColumn, startIndex, endIndex)
        totalCount == Len(FilterTasks(tasks, column, search))
        totalPages == MathCeilDiv(totalCount, limit)
    IN  [tasks |-> FilterTasks(paged, column, search),
         total |-> totalCount,
         currentPage |-> page,
         totalPages |-> totalPages,
         limit |-> limit,
         hasMore |-> page < totalPages]

\* fetchTasksByColumn after the await
fetchTasksByColumn(tasks, column, page, limit, search) ==
    LET allTasks == FilterTasks(tasks, column, search)
        totalCount == Len(allTasks)
        totalPages == MathCeilDiv(totalCount, limit)
        startIndex == (page - 1) * limit
        endIndex == startIndex + limit
    IN  [tasks |-> Slice(allTasks, startIndex, endIndex),
         total |-> totalCount,
         currentPage |-> page,
         totalPages |-> totalPages,
         limit |-> limit,
         hasMore |-> page < totalPages]

NewDraft(column) == [title |-> <<"a">>, description |-> <<"B">>, column |-> column]

\* the synchronous remainder of the operation, after `await initializeFromAPI()`
Body(i) ==
    /\ calls[i].pc = "body"
    /\ LET c == calls[i]
           r == CASE c.op = "create" -> createTask(storage, NewDraft(c.column))
                  [] c.op = "update" -> updateTask(storage, c.id, [column |-> c.column])
                  [] c.op = "delete" -> deleteTask(storage, c.id)
                  [] c.op = "get" -> fetchTask(storage, c.id)
                  [] OTHER -> [tasks |-> storage, task |-> Task(0, <<>>, <<>>, "backlog"),
                               status |-> 200]
       IN  /\ storage' = r.tasks
           /\ calls' = [calls EXCEPT ![i].pc = "done",
                                     ![i].result = IF r.status = 200 THEN "ok" ELSE "notfound",
                                     ![i].id = IF c.op = "create" THEN r.task.id ELSE c.id,
                                     ![i].maxBefore = maxEver]
           /\ maxEver' = MaxOf({maxEver} \cup Ids(r.tasks))
    /\ UNCHANGED <<initFlag, fetchCount, pageVars, uiVars>>

NextStore ==
    \/ \E i \in CallSlots : StartCall(i, "list", 0, "backlog")
    \/ \E i \in CallSlots, c \in DraftColumns : StartCall(i, "create", 0, c)
    \/ \E i \in CallSlots, id \in 1..MaxArgId, c \in MoveColumns :
          StartCall(i, "update", id, c)
    \/ \E i \in CallSlots, id \in 1..MaxArgId : StartCall(i, "delete", id, "backlog")
    \/ \E i \in CallSlots, id \in 1..MaxArgId : StartCall(i, "get", id, "backlog")
    \/ \E i \in CallSlots : FetchOk(i)
    \/ \E i \in CallSlots : FetchFail(i)
    \/ \E i \in CallSlots : JsonDone(i)
    \/ \E i \in CallSlots : Body(i)

SpecStore == InitStore /\ [][NextStore]_vars

(***************************************************************************)
(* C3: each create returns an id strictly greater than every id ever       *)
(* assigned before it in the collection, so no id is reused after delete.  *)
(***************************************************************************)
C3_IdNeverReused ==
    \A i \in CallSlots :
        (calls[i].op = "create" /\ calls[i].pc = "done") => calls[i].id > calls[i].maxBefore

(***************************************************************************)
(* C4: the seed step issues at most one remote fetch in total and never    *)
(* duplicates records, whether the calls follow one another or overlap.    *)
(***************************************************************************)
C4_OneSeedFetch ==
    /\ fetchCount <= 1
    /\ Cardinality(Ids(storage)) = Len(storage)

(***************************************************************************)
(* Paginated reads of an initialized store: the pages of one query are     *)
(* read one after the other, first page first, one page past the last.     *)
(***************************************************************************)
SearchStrings == { <<>>, <<" ">>, <<"a">>, <<" ", "B">>, <<"X">> }

TitleOf(k) == IF k = 1 THEN <<"A", "b">> ELSE <<"B", "b">>

\* collections of n tasks with ids 1..n in stored order
CollectionsOfLen(n) ==
    { [i \in 1..n |-> Task(i, TitleOf(kind[i]), <<"x">>, col[i])] :
        kind \in [1..n -> {1, 2}], col \in [1..n -> {"backlog", "done"}] }

InitPaged ==
    /\ InitUiIdle
    /\ \E n \in 0..MaxLen : storage \in CollectionsOfLen(n)
    /\ initFlag = TRUE
    /\ calls = [i \in CallSlots |-> IdleCall]
    /\ fetchCount = 0
    /\ maxEver = Len(storage)
    /\ pgQuery \in [column : {"backlog", "review"}, search : SearchStrings,
                    limit : 1..MaxLimit]
    /\ pgResult = NoResult
    /\ pgItems = <<>>

\* fetchTasksByColumn for the page after the last one read
ReadNextPage ==
    /\ pgResult.currentPage <= pgResult.totalPages
    /\ LET r == fetchTasksByColumn(storage, pgQuery.column, pgResult.currentPage + 1,
                                   pgQuery.limit, pgQuery.search)
       IN  /\ pgResult' = r
           /\ pgItems' = pgItems \o r.tasks
    /\ UNCHANGED <<storeVars, pgQuery, uiVars>>

NextPaged == ReadNextPage

SpecPaged == InitPaged /\ [][NextPaged]_vars

\* the stage's filtered collection, in stored order
StageTasks ==
    SelectSeq(storage,
              LAMBDA t : /\ t.column = pgQuery.column
                         /\ \/ Trim(pgQuery.search) = <<>>
                            \/ Includes(ToLowerCase(t.title), ToLowerCase(Trim(pgQuery.search)))
                            \/ Includes(ToLowerCase(t.description),
                                        ToLowerCase(Trim(pgQuery.search))))

(***************************************************************************)
(* C5: fetchTasksByColumn reports totalPages = ceil(total / pageSize), 0   *)
(* for an empty stage; the items of pages 1..totalPages, in page order,    *)
(* are exactly the stage's filtered collection in stored order, nothing    *)
(* duplicated or omitted; a page beyond totalPages is empty.               *)
(***************************************************************************)
C5_Pagination ==
    pgResult.currentPage >= 1 =>
        /\ pgResult.total = Len(StageTasks)
        /\ pgResult.totalPages * pgQuery.limit >= pgResult.total
        /\ (pgResult.totalPages - 1) * pgQuery.limit < pgResult.total
        /\ pgResult.total = 0 => pgResult.totalPages = 0
        /\ pgResult.currentPage < pgResult.totalPages =>
                pgItems = SubSeq(StageTasks, 1, pgResult.currentPage * pgQuery.limit)
        /\ pgResult.currentPage >= pgResult.totalPages => pgItems = StageTasks
        /\ pgResult.currentPage > pgResult.totalPages => pgResult.tasks = <<>>
        /\ Cardinality(Ids(pgItems)) = Len(pgItems)

\* the last of three pages has been read under a search that drops a task
C5_Witness ==
    /\ pgResult.currentPage = 3
    /\ pgResult.totalPages = 3
    /\ pgQuery.limit = 1
    /\ SearchActive(pgQuery.search)
    /\ Len(pgItems) = 3
    /\ Len(FilterTasks(storage, pgQuery.column, <<>>)) = 4

(***************************************************************************)
(* The board: the task-list query, the three mutation hooks and the        *)
(* handlers of KanbanBoard, SearchBar and TaskForm.                        *)
(***************************************************************************)
MaxMuts == 2

SearchInputs == {<<>>, <<"a">>}

\* the `{ ...newTask, id: Date.now() }` id of the k-th mutation: a timestamp,
\* larger than every id the store assigns
DateNow(k) == 1000 + k

\* fetchTasks() with no params, after the await
fetchTasks(tasks) == tasks

\* `data: allTasks = []`
allTasks == IF listQuery.hasData THEN listQuery.data ELSE <<>>

\* useQuery isLoading: no data yet and a fetch in flight
isLoading == ~listQuery.hasData /\ listQuery.fetching

\* a memo that looks for the search string in the titles only
BoardTasks_TitleOnly ==
    IF ~SearchActive(searchQuery)
    THEN allTasks
    ELSE SelectSeq(allTasks,
            LAMBDA t : Includes(ToLowerCase(t.title), Trim(ToLowerCase(searchQuery))))

\* the `tasks` memo of KanbanBoard
BoardTasks ==
    IF ~SearchActive(searchQuery)
    THEN allTasks
    ELSE LET filteredTasks == SelectSeq(allTasks, LAMBDA t : MatchesSearch(t, searchQuery))
         IN  IF draggedTask # NoTask /\ IndexOfId(filteredTasks, draggedTask.id) = 0
             THEN Append(filteredTasks, draggedTask)
             ELSE filteredTasks

\* the page size the modelled columns pass to usePaginatedColumnTasks
PageSize == 2

\* the paginated columns on screen
MountedColumns == DOMAIN pageFetching

\* the searchQuery prop of a paginated column: the committed search string
ColumnSearch == searchQuery

\* paginatedTaskKeys.paginatedColumn(columnId, page, searchQuery)
paginatedColumn(c) ==
    [column |-> c, page |-> columnPaginationState[c].currentPage, search |-> ColumnSearch]

\* queryResult.data of a column's hook
HasPageData(c) == \E e \in pageCache : e.key = paginatedColumn(c)

PageData(c) == (CHOOSE e \in pageCache : e.key = paginatedColumn(c)).data

\* `tasks = data?.tasks ?? []`
ColumnTasks(c) == IF HasPageData(c) THEN PageData(c).tasks ELSE <<>>

\* the cards on screen: of the board's task list when its columns are fed by
\* it, rendered when the list is not loading; of the columns' pages otherwise
RenderedTasks ==
    IF MountedColumns = {}
    THEN IF isLoading THEN {} ELSE {BoardTasks[i] : i \in 1..Len(BoardTasks)}
    ELSE UNION {{ColumnTasks(c)[i] : i \in 1..Len(ColumnTasks(c))} : c \in MountedColumns}

\* queryClient.cancelQueries({ queryKey: taskKeys.lists() }): the fetch is dropped;
\* the queryFn takes no AbortSignal, so its store call runs on
cancelQueries(q) ==
    [q EXCEPT !.fetching = FALSE, !.orphaned = q.orphaned \/ q.fetching]

\* queryClient.setQueryData(queryKey, data): undefined data leaves the entry alone
setQueryData(q, defined, data) ==
    IF defined THEN [q EXCEPT !.hasData = TRUE, !.data = data] ELSE q

\* an onSettled that starts no refetch
invalidateQueries_NoRefetch(q) == q

\* queryClient.invalidateQueries({ queryKey: taskKeys.lists() }): the board
\* observes the list query, so it refetches; a fetch under way of a query that has
\* data is cancelled and started again, one of a query without data is kept
invalidateQueries(q) ==
    [q EXCEPT !.fetching = TRUE,
              !.orphaned = q.orphaned \/ (q.fetching /\ q.hasData)]

\* the updater of useCreateTask.onMutate
OptimisticCreate(q, draft, tempId) ==
    LET temp == Task(tempId, draft.title, draft.description, draft.column)
    IN  IF ~q.hasData
        THEN [q EXCEPT !.hasData = TRUE, !.data = <<temp>>]
        ELSE [q EXCEPT !.data = Append(q.data, temp)]

\* the updater of useUpdateTask.onMutate
OptimisticUpdate(q, id, updates) ==
    IF ~q.hasData
    THEN q
    ELSE [q EXCEPT !.data =
            [i \in 1..Len(q.data) |->
                IF q.data[i].id = id
                THEN [k \in DOMAIN q.data[i] |->
                        IF k \in DOMAIN updates THEN updates[k] ELSE q.data[i][k]]
                ELSE q.data[i]]]

\* the updater of useDeleteTask.onMutate
OptimisticDelete(q, id) ==
    IF ~q.hasData
    THEN q
    ELSE [q EXCEPT !.data = SelectSeq(q.data, LAMBDA t : t.id # id)]

\* mutation.isPending of a hook: the state of the mutation its observer follows
isPending(kind) == observed[kind] # 0 /\ muts[observed[kind]].status = "pending"

isFormLoading == isPending("create") \/ isPending("update")

\* no modal dialog covers the board
BoardFree == ~isTaskFormOpen /\ ~deleteDialogOpen

\* an onMutate that takes its snapshot after the optimistic change
Mutate_SnapshotAfterChange(kind, id, updates, source, title) ==
    LET k == Len(muts) + 1
        cancelled == cancelQueries(listQuery)
        optimistic ==
            CASE kind = "create" -> OptimisticCreate(cancelled, updates, DateNow(k))
              [] kind = "update" -> OptimisticUpdate(cancelled, id, updates)
              [] kind = "delete" -> OptimisticDelete(cancelled, id)
    IN  /\ Len(muts) < MaxMuts
        /\ muts' = Append(muts,
              [kind |-> kind, id |-> id, updates |-> updates, source |-> source,
               title |-> title,
               status |-> "pending", noticed |-> FALSE, failureCount |-> 0,
               previousDefined |-> optimistic.hasData,
               previousTasks |-> optimistic.data])
        /\ observed' = [observed EXCEPT ![kind] = k]
        /\ listQuery' = optimistic

\* useMutation(...).mutate(variables, callbacks): onMutate runs and the
\* observer of the hook moves to the new mutation
Mutate(kind, id, updates, source, title) ==
    LET k == Len(muts) + 1
        cancelled == cancelQueries(listQuery)
        optimistic ==
            CASE kind = "create" -> OptimisticCreate(cancelled, updates, DateNow(k))
              [] kind = "update" -> OptimisticUpdate(cancelled, id, updates)
              [] kind = "delete" -> OptimisticDelete(cancelled, id)
    IN  /\ Len(muts) < MaxMuts
        /\ muts' = Append(muts,
              [kind |-> kind, id |-> id, updates |-> updates, source |-> source,
               title |-> title,
               status |-> "pending", noticed |-> FALSE, failureCount |-> 0,
               previousDefined |-> cancelled.hasData,
               previousTasks |-> cancelled.data])
        /\ observed' = [observed EXCEPT ![kind] = k]
        /\ listQuery' = optimistic

\* the list query's fetch resolves
ListFetchDone ==
    /\ listQuery.fetching
    /\ listQuery' = [listQuery EXCEPT !.hasData = TRUE, !.data = fetchTasks(storage),
                                      !.fetching = FALSE]
    /\ UNCHANGED <<storeVars, pageVars, dragVars, formVars, searchVars, noticeVars,
                   dialogVars, pageCache, pageFetching, mutVars>>

\* the store calls of the list key's cancelled fetches resolve: nothing listens
CancelledCallDone ==
    /\ listQuery.orphaned
    /\ listQuery' = [listQuery EXCEPT !.orphaned = FALSE]
    /\ UNCHANGED <<storeVars, pageVars, dragVars, formVars, searchVars, noticeVars,
                   dialogVars, pageCache, pageFetching, mutVars>>

\* the fetchTasks calls of the list key that have not resolved: the one of the
\* fetch under way and those of cancelled fetches, counted as one
InFlightListCalls ==
    (IF listQuery.fetching THEN 1 ELSE 0) + (IF listQuery.orphaned THEN 1 ELSE 0)

\* the messages of TaskApiError
NotFoundMessage(id) == <<"Task with id ", ToString(id), " not found">>

SaveFailedMessage == <<"Failed to save tasks to local storage">>

columnNames ==
    [c \in Columns |->
        CASE c = "backlog" -> "Backlog"
          [] c = "in-progress" -> "In Progress"
          [] c = "review" -> "Review"
          [] c = "done" -> "Done"]

\* the success notice of a move
MovedMessage(title, column) ==
    <<"Task \"">> \o title \o <<"\" moved to ", columnNames[column]>>

\* error.message.includes(s), on the pieces of the message
MessageIncludes(msg, s) == \E i \in 1..Len(msg) : msg[i] = s

\* the onError classification of handleDragEnd
DragErrorMessage(msg) ==
    CASE MessageIncludes(msg, "network") ->
            <<"Network error - task move failed. Please check your connection.">>
      [] MessageIncludes(msg, "404") ->
            <<"Task not found - it may have been deleted by another user.">>
      [] MessageIncludes(msg, "400") -> <<"Invalid task data - move operation failed.">>
      [] msg # <<>> -> msg
      [] OTHER -> <<"Failed to move task">>

\* closeTaskForm
closeTaskForm ==
    /\ isTaskFormOpen' = FALSE
    /\ selectedTask' = NoTask
    /\ UNCHANGED taskFormMode

\* the callbacks passed to mutate(), run when the mutation settles while the
\* hook's observer still follows it
MutateCallbacks(mu, ok, err) ==
    CASE mu.source = "form" ->
            /\ UNCHANGED dialogVars
            /\ IF ok
               THEN /\ successMessage' = IF mu.kind = "create"
                                         THEN <<"Task created successfully!">>
                                         ELSE <<"Task updated successfully!">>
                    /\ closeTaskForm
                    /\ UNCHANGED errorMessage
               ELSE /\ errorMessage' = err
                    /\ UNCHANGED <<successMessage, formVars>>
      [] mu.source = "dialog" ->
            /\ UNCHANGED formVars
            /\ deleteDialogOpen' = FALSE
            /\ taskToDelete' = NoTask
            /\ IF ok
               THEN successMessage' = <<"Task deleted successfully!">> /\ UNCHANGED errorMessage
               ELSE errorMessage' = err /\ UNCHANGED successMessage
      [] mu.source = "drag" ->
            /\ UNCHANGED <<formVars, dialogVars>>
            /\ IF ok
               THEN /\ successMessage' = MovedMessage(mu.title, mu.updates.column)
                    /\ UNCHANGED errorMessage
               ELSE /\ errorMessage' = DragErrorMessage(err)
                    /\ UNCHANGED successMessage

\* a mutation settles: the mutationFn ran against the store; onError rolls the
\* list back, onSettled invalidates it, then the callbacks of mutate() run
Settle(m, writeOk) ==
    /\ m \in 1..Len(muts)
    /\ muts[m].status = "pending"
    /\ LET mu == muts[m]
           r == CASE mu.kind = "create" -> createTask(storage, mu.updates)
                  [] mu.kind = "update" -> updateTask(storage, mu.id, mu.updates)
                  [] mu.kind = "delete" -> deleteTask(storage, mu.id)
           ok == writeOk /\ r.status = 200
           err == IF r.status = 404 THEN NotFoundMessage(mu.id) ELSE SaveFailedMessage
           rolledBack == IF ok
                         THEN listQuery
                         ELSE setQueryData(listQuery, mu.previousDefined, mu.previousTasks)
       IN  /\ storage' = IF ok THEN r.tasks ELSE storage
           /\ maxEver' = MaxOf({maxEver} \cup Ids(storage'))
           /\ listQuery' = invalidateQueries(rolledBack)
           /\ muts' = [muts EXCEPT ![m] =
                         [mu EXCEPT !.status = IF ok THEN "success" ELSE "error",
                                    !.noticed = (observed[mu.kind] = m),
                                    !.previousDefined = FALSE,
                                    !.previousTasks = <<>>]]
           /\ IF observed[mu.kind] = m
              THEN MutateCallbacks(mu, ok, err)
              ELSE UNCHANGED <<noticeVars, formVars, dialogVars>>
    /\ UNCHANGED <<initFlag, calls, fetchCount, pageVars, dragVars, searchVars,
                   pageCache, pageFetching, observed>>

RECURSIVE HasDigit(_, _)
\* the decimal form of n holds the digit d
HasDigit(n, d) == IF n < 10 THEN n = d ELSE (n % 10 = d \/ HasDigit(n \div 10, d))

\* the error a run of a mutation's mutationFn throws: new TaskApiError(message,
\* status), status left out (0) by saveTasksToStorage
MutationError(mu, r) ==
    IF r.status = 404
    THEN [status |-> 404, id |-> mu.id, message |-> NotFoundMessage(mu.id)]
    ELSE [status |-> 0, id |-> 0, message |-> SaveFailedMessage]

\* error.message.includes("4"): the words of the store's messages hold no digit,
\* so the only "4" can be one of the id's digits
MessageIncludes4(error) ==
    error.message = NotFoundMessage(error.id) /\ HasDigit(error.id, 4)

\* defaultOptions.mutations.retry of the QueryClient; no mutation hook sets its own
MutationRetry(failureCount, error) ==
    IF MessageIncludes4(error) THEN FALSE ELSE failureCount < 2

\* one run of a pending mutation's mutationFn under the retryer: a failure that
\* the retry option accepts is counted and the function is run again later; any
\* other outcome settles the mutation
Attempt(m, writeOk) ==
    /\ m \in 1..Len(muts)
    /\ muts[m].status = "pending"
    /\ LET mu == muts[m]
           r == CASE mu.kind = "create" -> createTask(storage, mu.updates)
                  [] mu.kind = "update" -> updateTask(storage, mu.id, mu.updates)
                  [] mu.kind = "delete" -> deleteTask(storage, mu.id)
           ok == writeOk /\ r.status = 200
       IN  IF ~ok /\ MutationRetry(mu.failureCount, MutationError(mu, r))
           THEN /\ muts' = [muts EXCEPT ![m].failureCount = @ + 1]
                /\ UNCHANGED <<storeVars, pageVars, dragVars, formVars, searchVars,
                               noticeVars, dialogVars, queryVars, observed>>
           ELSE Settle(m, writeOk)

\* "Add Task" of the SearchBar
HandleAddTask ==
    /\ BoardFree
    /\ dndActive = NoTask
    /\ isTaskFormOpen' = TRUE
    /\ taskFormMode' = "create"
    /\ selectedTask' = NoTask
    /\ UNCHANGED <<storeVars, pageVars, dragVars, searchVars, noticeVars, dialogVars,
                   queryVars, mutVars>>

\* a click on a card: openTaskForm("edit", task)
HandleCardClick(task) ==
    /\ BoardFree
    /\ dndActive = NoTask
    /\ task \in RenderedTasks
    /\ isTaskFormOpen' = TRUE
    /\ taskFormMode' = "edit"
    /\ selectedTask' = task
    /\ UNCHANGED <<storeVars, pageVars, dragVars, searchVars, noticeVars, dialogVars,
                   queryVars, mutVars>>

\* Cancel, Escape or the backdrop of the TaskForm, all disabled while loading
HandleCancel ==
    /\ isTaskFormOpen
    /\ ~isFormLoading
    /\ closeTaskForm
    /\ UNCHANGED <<storeVars, pageVars, dragVars, searchVars, noticeVars, dialogVars,
                   queryVars, mutVars>>

\* the data an edit submits: the task's fields with a new title
EditDraft(task) ==
    [title |-> <<"a">>, description |-> task.description, column |-> task.column]

\* handleTaskSubmit, reached by the submit button or by Ctrl/Cmd+Enter, which
\* does not look at isLoading
HandleTaskSubmit(column) ==
    /\ isTaskFormOpen
    /\ IF taskFormMode = "create"
       THEN Mutate("create", 0, NewDraft(column), "form", <<>>)
       ELSE /\ selectedTask # NoTask
            /\ Mutate("update", selectedTask.id, EditDraft(selectedTask), "form", <<>>)
    /\ UNCHANGED <<storeVars, pageVars, dragVars, formVars, searchVars, noticeVars,
                   dialogVars, pageCache, pageFetching>>

\* handleDeleteTask, from the delete button of a card
HandleDeleteTask(taskId) ==
    /\ BoardFree
    /\ dndActive = NoTask
    /\ taskId \in {t.id : t \in RenderedTasks}
    /\ taskToDelete' = BoardTasks[IndexOfId(BoardTasks, taskId)]
    /\ deleteDialogOpen' = TRUE
    /\ UNCHANGED <<storeVars, pageVars, dragVars, formVars, searchVars, noticeVars,
                   queryVars, mutVars>>

\* handleConfirmDelete, from the Delete button, disabled while a delete is pending
HandleConfirmDelete ==
    /\ deleteDialogOpen
    /\ ~isPending("delete")
    /\ taskToDelete # NoTask
    /\ Mutate("delete", taskToDelete.id, [id |-> taskToDelete.id], "dialog", <<>>)
    /\ UNCHANGED <<storeVars, pageVars, dragVars, formVars, searchVars, noticeVars,
                   dialogVars, pageCache, pageFetching>>

\* handleCancelDelete: the Cancel button, disabled while a delete is pending, or
\* the dialog's onClose (backdrop, Escape), which is not
HandleCancelDelete ==
    /\ deleteDialogOpen
    /\ deleteDialogOpen' = FALSE
    /\ taskToDelete' = NoTask
    /\ UNCHANGED <<storeVars, pageVars, dragVars, formVars, searchVars, noticeVars,
                   queryVars, mutVars>>

\* handleCloseSnackbar: a notice is dismissed or its autoHideDuration elapses
HandleCloseSnackbar ==
    /\ successMessage # <<>> \/ errorMessage # <<>>
    /\ successMessage' = <<>>
    /\ errorMessage' = <<>>
    /\ UNCHANGED <<storeVars, pageVars, dragVars, formVars, searchVars, dialogVars,
                   queryVars, mutVars>>

\* the drop targets tried: no target, the column the seed's first task is in,
\* and another column
DropTargets == {NoTarget, "backlog", "done"}

\* handleDragStart: the sensor activates on a rendered card
HandleDragStart(task) ==
    /\ BoardFree
    /\ dndActive = NoTask
    /\ task \in RenderedTasks
    /\ dndActive' = task
    /\ draggedTask' = task
    /\ isDragging' = TRUE
    /\ UNCHANGED <<storeVars, pageVars, dragOverColumn, formVars, searchVars, noticeVars,
                   dialogVars, queryVars, mutVars>>

\* handleDragOver
HandleDragOver(over) ==
    /\ dndActive # NoTask
    /\ dragOverColumn # over
    /\ dragOverColumn' = over
    /\ UNCHANGED <<storeVars, pageVars, draggedTask, isDragging, dndActive, formVars,
                   searchVars, noticeVars, dialogVars, queryVars, mutVars>>

\* a handleDragEnd that returns on a missing target before the reset
ResetDragState_AfterTargetCheck(over) ==
    IF over = NoTarget
    THEN UNCHANGED <<draggedTask, isDragging, dragOverColumn>>
    ELSE /\ draggedTask' = NoTask
         /\ isDragging' = FALSE
         /\ dragOverColumn' = NoTarget

\* the reset at the top of handleDragEnd
ResetDragState(over) ==
    /\ draggedTask' = NoTask
    /\ isDragging' = FALSE
    /\ dragOverColumn' = NoTarget

\* a handleDragEnd without the `!over` return: the move is issued all the same
HandleDragEnd_NoTargetReturn(over) ==
    /\ dndActive # NoTask
    /\ dndActive' = NoTask
    /\ ResetDragState(over)
    /\ LET task == dndActive
       IN  IF over # NoTarget /\ task.column = over
           THEN UNCHANGED <<noticeVars, queryVars, mutVars>>
           ELSE /\ Mutate("update", task.id, [column |-> over], "drag", task.title)
                /\ UNCHANGED <<noticeVars, pageCache, pageFetching>>
    /\ UNCHANGED <<storeVars, pageVars, formVars, searchVars, dialogVars>>

\* a handleDragEnd without the same-column return: the move is issued all the same
HandleDragEnd_NoSameColumnReturn(over) ==
    /\ dndActive # NoTask
    /\ dndActive' = NoTask
    /\ ResetDragState(over)
    /\ LET task == dndActive
       IN  IF over = NoTarget
           THEN /\ errorMessage' =
                      <<"Drop cancelled - task returned to original position">>
                /\ UNCHANGED <<successMessage, queryVars, mutVars>>
           ELSE /\ Mutate("update", task.id, [column |-> over], "drag", task.title)
                /\ UNCHANGED <<noticeVars, pageCache, pageFetching>>
    /\ UNCHANGED <<storeVars, pageVars, formVars, searchVars, dialogVars>>

\* handleDragEnd: the session of dnd-kit is over when it is called
HandleDragEnd(over) ==
    /\ dndActive # NoTask
    /\ dndActive' = NoTask
    /\ ResetDragState(over)
    /\ LET task == dndActive
       IN  CASE over = NoTarget ->
                    /\ errorMessage' =
                          <<"Drop cancelled - task returned to original position">>
                    /\ UNCHANGED <<successMessage, queryVars, mutVars>>
             [] over # NoTarget /\ task.column = over ->
                    UNCHANGED <<noticeVars, queryVars, mutVars>>
             [] OTHER ->
                    /\ Mutate("update", task.id, [column |-> over], "drag", task.title)
                    /\ UNCHANGED <<noticeVars, pageCache, pageFetching>>
    /\ UNCHANGED <<storeVars, pageVars, formVars, searchVars, dialogVars>>

(***************************************************************************)
(* kanbanStore: the search and pagination actions, as functions of the     *)
(* store's state.                                                          *)
(***************************************************************************)
SearchState == [searchQuery |-> searchQuery, columnPaginationState |-> columnPaginationState]

setSearchQuery(state, query) ==
    [searchQuery |-> query,
     columnPaginationState |->
        [c \in DOMAIN state.columnPaginationState |-> initialColumnPaginationState]]

clearSearch(state) ==
    [searchQuery |-> <<>>,
     columnPaginationState |->
        [c \in DOMAIN state.columnPaginationState |-> initialColumnPaginationState]]

resetPaginationForSearch(state) ==
    [state EXCEPT !.columnPaginationState = [c \in Columns |-> initialColumnPaginationState]]

setCurrentPage(state, column, page) ==
    [state EXCEPT !.columnPaginationState[column].currentPage = page]

\* a commit that writes the search string and leaves the pagination state alone
CommitQuery_KeepPages(state, query) == [state EXCEPT !.searchQuery = query]

\* the store calls of the debounce callback of the SearchBar
CommitQuery(state, query) == resetPaginationForSearch(setSearchQuery(state, query))

\* a hook without the removeQueries effect: a new key is fetched, the entries of
\* the old search stay
ColumnEffects_NoPurge(new) ==
    /\ pageCache' = pageCache
    /\ pageFetching' =
          [c \in MountedColumns |->
              IF \/ new.searchQuery # searchQuery
                 \/ new.columnPaginationState[c].currentPage
                        # columnPaginationState[c].currentPage
              THEN TRUE
              ELSE pageFetching[c]]

\* what a change of the store's search and page state does to the paginated
\* columns: a new search string makes each column's hook remove the column's
\* entries; a new key is fetched (staleTime 0)
ColumnEffects(new) ==
    /\ pageCache' = IF new.searchQuery # searchQuery
                    THEN {e \in pageCache : e.key.column \notin MountedColumns}
                    ELSE pageCache
    /\ pageFetching' =
          [c \in MountedColumns |->
              IF \/ new.searchQuery # searchQuery
                 \/ new.columnPaginationState[c].currentPage
                        # columnPaginationState[c].currentPage
              THEN TRUE
              ELSE pageFetching[c]]

\* the store's state is replaced; resetFromPage remembers the largest page
\* shown just before a change of the search string
CommitSearchState(new) ==
    /\ searchQuery' = new.searchQuery
    /\ columnPaginationState' = new.columnPaginationState
    /\ resetFromPage' =
          IF new.searchQuery # searchQuery
          THEN MaxOf({columnPaginationState[c].currentPage : c \in Columns})
          ELSE resetFromPage
    /\ ColumnEffects(new)

\* an onChange whose effect leaves the running timer alone instead of
\* clearing it and setting a new one
HandleInputChange_KeepTimer(v) ==
    /\ BoardFree
    /\ dndActive = NoTask
    /\ v # localValue
    /\ localValue' = v
    /\ timerPending' = TRUE
    /\ timerElapsed' = timerElapsed
    /\ UNCHANGED <<storeVars, pageVars, dragVars, formVars, searchQuery,
                   columnPaginationState, resetFromPage, noticeVars, dialogVars,
                   queryVars, mutVars>>

\* onChange of the search field
HandleInputChange(v) ==
    /\ BoardFree
    /\ dndActive = NoTask
    /\ v # localValue
    /\ localValue' = v
    /\ timerPending' = TRUE
    /\ timerElapsed' = 0
    /\ UNCHANGED <<storeVars, pageVars, dragVars, formVars, searchQuery,
                   columnPaginationState, resetFromPage, noticeVars, dialogVars,
                   queryVars, mutVars>>

\* the debounce timer fires, 300 ms after the last change of localValue or of
\* searchQuery; a commit re-arms it and the sync effect copies it to the field
DebounceFire ==
    /\ timerPending
    /\ timerElapsed' = 0
    /\ LET trimmedValue == Trim(localValue)
           currentQuery == Trim(searchQuery)
       IN  IF trimmedValue # currentQuery
           THEN LET new == CommitQuery(SearchState, trimmedValue)
                IN  /\ CommitSearchState(new)
                    /\ localValue' = new.searchQuery
                    /\ timerPending' = (new.searchQuery # searchQuery)
           ELSE /\ timerPending' = FALSE
                /\ UNCHANGED <<searchQuery, columnPaginationState, resetFromPage, localValue,
                               pageCache, pageFetching>>
    /\ UNCHANGED <<storeVars, pageVars, dragVars, formVars, noticeVars, dialogVars,
                   listQuery, mutVars>>

\* handleClear: the clear button or Escape in the search field
HandleClear ==
    /\ BoardFree
    /\ dndActive = NoTask
    /\ localValue # <<>> \/ searchQuery # <<>>
    /\ LET new == resetPaginationForSearch(clearSearch(SearchState))
       IN  /\ CommitSearchState(new)
           /\ localValue' = <<>>
           /\ timerPending' = TRUE
           /\ timerElapsed' = 0
    /\ UNCHANGED <<storeVars, pageVars, dragVars, formVars, noticeVars, dialogVars,
                   listQuery, mutVars>>

\* handlePageChange, from the PaginationControls of a column: shown when the
\* column has cards and more than one page
HandlePageChange(c, page) ==
    /\ BoardFree
    /\ dndActive = NoTask
    /\ c \in MountedColumns
    /\ HasPageData(c)
    /\ PageData(c).totalPages > 1
    /\ ColumnTasks(c) # <<>>
    /\ page \in 1..PageData(c).totalPages
    /\ page # PageData(c).currentPage
    /\ CommitSearchState(setCurrentPage(SearchState, c, page))
    /\ UNCHANGED <<storeVars, pageVars, dragVars, formVars, localValue, timerPending,
                   timerElapsed,
                   noticeVars, dialogVars, listQuery, mutVars>>

\* the fetch of a column's current key resolves
PageFetchDone(c) ==
    /\ c \in MountedColumns
    /\ pageFetching[c]
    /\ pageCache' =
          {e \in pageCache : e.key # paginatedColumn(c)} \cup
          {[key |-> paginatedColumn(c),
            data |-> fetchTasksByColumn(storage, c, paginatedColumn(c).page, PageSize,
                                        paginatedColumn(c).search),
            isInvalidated |-> FALSE]}
    /\ pageFetching' = [pageFetching EXCEPT ![c] = FALSE]
    /\ UNCHANGED <<storeVars, pageVars, dragVars, formVars, searchVars, noticeVars,
                   dialogVars, listQuery, mutVars>>

\* the board is mounted over an initialised store holding `tasks`, with the
\* paginated `columns` on screen; the list query and the columns' queries are
\* fetching and the search bar's first debounce timer is armed
InitMounted(tasks, columns) ==
    /\ InitPage
    /\ storage = tasks
    /\ initFlag = TRUE
    /\ calls = [i \in CallSlots |-> IdleCall]
    /\ fetchCount = 0
    /\ maxEver = MaxOf(Ids(tasks))
    /\ searchQuery = <<>>
    /\ columnPaginationState = [c \in Columns |-> initialColumnPaginationState]
    /\ draggedTask = NoTask
    /\ isDragging = FALSE
    /\ dragOverColumn = NoTarget
    /\ isTaskFormOpen = FALSE
    /\ taskFormMode = "create"
    /\ selectedTask = NoTask
    /\ successMessage = <<>>
    /\ errorMessage = <<>>
    /\ deleteDialogOpen = FALSE
    /\ taskToDelete = NoTask
    /\ localValue = <<>>
    /\ timerPending = TRUE
    /\ timerElapsed = 0
    /\ dndActive = NoTask
    /\ listQuery = [NoData EXCEPT !.fetching = TRUE]
    /\ pageCache = {}
    /\ pageFetching = [c \in columns |-> TRUE]
    /\ muts = <<>>
    /\ observed = [k \in {"create", "update", "delete"} |-> 0]
    /\ resetFromPage = 0

\* the board with list-fed columns
InitBoard == InitMounted(SeedTasks, {})

NextBoard ==
    \/ ListFetchDone
    \/ CancelledCallDone
    \/ \E m \in 1..MaxMuts, writeOk \in BOOLEAN : Settle(m, writeOk)
    \/ HandleAddTask
    \/ \E t \in RenderedTasks : HandleCardClick(t)
    \/ HandleCancel
    \/ \E c \in DraftColumns : HandleTaskSubmit(c)
    \/ \E t \in RenderedTasks : HandleDeleteTask(t.id)
    \/ HandleConfirmDelete
    \/ HandleCancelDelete
    \/ HandleCloseSnackbar
    \/ \E t \in RenderedTasks : HandleDragStart(t)
    \/ \E over \in DropTargets : HandleDragOver(over)
    \/ \E over \in DropTargets : HandleDragEnd(over)

\* the board, its dialogs and its drag handlers, the search left alone
SpecBoard == InitBoard /\ [][NextBoard]_vars

NextSearch ==
    \/ ListFetchDone
    \/ CancelledCallDone
    \/ \E m \in 1..MaxMuts, writeOk \in BOOLEAN : Settle(m, writeOk)
    \/ HandleAddTask
    \/ HandleCancel
    \/ \E c \in DraftColumns : HandleTaskSubmit(c)
    \/ HandleCloseSnackbar
    \/ \E t \in RenderedTasks : HandleDragStart(t)
    \/ \E over \in DropTargets : HandleDragOver(over)
    \/ \E over \in DropTargets : HandleDragEnd(over)
    \/ \E v \in SearchInputs : HandleInputChange(v)
    \/ DebounceFire
    \/ HandleClear

\* the board under search: typing, the debounced commit, drags and creates
SpecSearch == InitBoard /\ [][NextSearch]_vars

\* three tasks in the backlog, two of them matching the search "a"
PagedTasks ==
    << Task(1, <<"A", "b">>, <<"b">>, "backlog"),
       Task(2, <<"a">>, <<"b">>, "backlog"),
       Task(3, <<"b">>, <<"b">>, "backlog") >>

\* the columns whose paginated queries are followed: the one the tasks start
\* in and the one they are moved to
PagedColumns == {"backlog", "done"}

\* the board with paginated columns
InitColumns == InitMounted(PagedTasks, PagedColumns)

NextColumns ==
    \/ \E c \in PagedColumns : PageFetchDone(c)
    \/ \E c \in PagedColumns, page \in 1..MaxLen : HandlePageChange(c, page)
    \/ \E m \in 1..MaxMuts, writeOk \in BOOLEAN : Settle(m, writeOk)
    \/ \E t \in RenderedTasks : HandleDragStart(t)
    \/ \E over \in DropTargets : HandleDragEnd(over)
    \/ \E v \in SearchInputs : HandleInputChange(v)
    \/ DebounceFire
    \/ HandleClear

\* the paginated columns: page changes, search commits and moves by drag
SpecColumns == InitColumns /\ [][NextColumns]_vars

(***************************************************************************)
(* C1: when the failure of an optimistic create, update or delete has been *)
(* handled, the task-list entry it modified holds exactly the value it had *)
(* immediately before that mutation's optimistic change: no data if it had *)
(* none, the same tasks otherwise.                                         *)
(***************************************************************************)
C1_RollbackRestores ==
    [][\A m \in 1..Len(muts) :
          (muts[m].status = "pending" /\ muts'[m].status = "error") =>
              /\ listQuery'.hasData = muts[m].previousDefined
              /\ listQuery'.data = muts[m].previousTasks]_vars

(***************************************************************************)
(* C2: whenever no drag session is active - after a drop outside every     *)
(* column, a drop on the source column, a successful move or a move whose  *)
(* mutation fails - the drag state is idle: no dragged task, isDragging    *)
(* false, no hovered column.                                               *)
(***************************************************************************)
C2_DragEndIdle ==
    dndActive = NoTask =>
        /\ draggedTask = NoTask
        /\ ~isDragging
        /\ dragOverColumn = NoTarget

\* a move made by drag has failed and its failure has been reported
C2_Witness ==
    /\ dndActive = NoTask
    /\ \E m \in 1..Len(muts) :
          muts[m].source = "drag" /\ muts[m].status = "error" /\ muts[m].noticed
    /\ errorMessage = SaveFailedMessage

(***************************************************************************)
(* C7: while a drag session is active, the dragged task is a member of the *)
(* board's filtered task set, whatever the committed search string.        *)
(***************************************************************************)
C7_DraggedStaysVisible ==
    draggedTask # NoTask => draggedTask.id \in Ids(BoardTasks)

(***************************************************************************)
(* C10: every create, update, move or delete that has settled has produced *)
(* its success or failure notice, also when a second mutation of the same  *)
(* kind was started before it settled.                                     *)
(***************************************************************************)
C10_EveryMutationNoticed ==
    \A m \in 1..Len(muts) :
        muts[m].status \in {"success", "error"} => muts[m].noticed

(***************************************************************************)
(* C6: every transition that changes the committed search string leaves    *)
(* currentPage = 1 in all four columns, in that same transition.           *)
(***************************************************************************)
C6_CommitResetsPages ==
    [][searchQuery' # searchQuery =>
          \A c \in Columns : columnPaginationState'[c].currentPage = 1]_vars

\* a search has been committed while a column was showing its second page
C6_Witness ==
    /\ resetFromPage = 2
    /\ searchQuery = <<"a">>
    /\ \A c \in Columns : columnPaginationState[c].currentPage = 1

(***************************************************************************)
(* C8: for every column, 1 <= currentPage <= max(1, totalPages), where     *)
(* totalPages is that of the column's tasks under the committed search,    *)
(* also after a move out of the column has reduced it.                     *)
(***************************************************************************)
C8_PageWithinRange ==
    \A c \in Columns :
        LET totalPages == fetchTasksByColumn(storage, c, 1, PageSize, ColumnSearch).totalPages
            currentPage == columnPaginationState[c].currentPage
        IN  /\ 1 <= currentPage
            /\ currentPage <= IF totalPages > 1 THEN totalPages ELSE 1

(***************************************************************************)
(* C9: when a move of a task from column A to column B settles with        *)
(* success, every cached paginated entry of A and of B is invalidated:     *)
(* marked invalidated, or, if a column shows it, being refetched.          *)
(***************************************************************************)
C9_MoveInvalidatesPages ==
    [][\A m \in 1..Len(muts) :
          (muts[m].status = "pending" /\ muts'[m].status = "success"
              /\ muts[m].source = "drag") =>
              \A e \in pageCache' :
                  e.key.column \in {storage[IndexOfId(storage, muts[m].id)].column,
                                    muts[m].updates.column} =>
                      \/ e.isInvalidated
                      \/ /\ e.key = paginatedColumn(e.key.column)
                         /\ pageFetching'[e.key.column]]_vars

(***************************************************************************)
(* C11: when a move made by drag fails and its failure is reported, the    *)
(* notice is the one of the failure's class - the task-not-found message   *)
(* for the store's NotFound (status 404), the error's own message for a    *)
(* failed write - and the stored collection is as it was.                  *)
(***************************************************************************)
C11_DragFailureNotice ==
    [][\A m \in 1..Len(muts) :
          (muts[m].status = "pending" /\ muts'[m].status = "error"
              /\ muts[m].source = "drag" /\ observed["update"] = m) =>
              /\ storage' = storage
              /\ errorMessage' =
                    IF updateTask(storage, muts[m].id, muts[m].updates).status = 404
                    THEN <<"Task not found - it may have been deleted by another user.">>
                    ELSE SaveFailedMessage]_vars

(***************************************************************************)
(* The board with the retryer of the mutations in view: each run of a      *)
(* mutationFn is a step.                                                   *)
(***************************************************************************)
NextRetry ==
    \/ ListFetchDone
    \/ CancelledCallDone
    \/ \E m \in 1..MaxMuts, writeOk \in BOOLEAN : Attempt(m, writeOk)
    \/ HandleAddTask
    \/ \E c \in DraftColumns : HandleTaskSubmit(c)
    \/ \E t \in RenderedTasks : HandleDeleteTask(t.id)
    \/ HandleConfirmDelete
    \/ HandleCancelDelete
    \/ \E t \in RenderedTasks : HandleDragStart(t)
    \/ \E over \in DropTargets : HandleDragEnd(over)

SpecRetry == InitBoard /\ [][NextRetry]_vars

(***************************************************************************)
(* C12: a mutation whose store operation fails with a client-error status  *)
(* (the store's NotFound, 404) is not run again: the store operation is    *)
(* issued once and the failure is surfaced.                                *)
(***************************************************************************)
C12_NoRetryOnClientError ==
    [][\A m \in 1..Len(muts) :
          (/\ muts[m].status = "pending"
           /\ muts[m].kind \in {"update", "delete"}
           /\ muts[m].id \notin Ids(storage)
           /\ muts'[m].failureCount # muts[m].failureCount) => FALSE]_vars

(***************************************************************************)
(* C13: a drag that ends with no drop target issues no mutation, leaves    *)
(* the stored collection and every cached entry as they were, and shows    *)
(* the 'drop cancelled' notice.                                            *)
(***************************************************************************)
C13_DropCancelled ==
    [][HandleDragEnd(NoTarget) =>
          /\ muts' = muts
          /\ storage' = storage
          /\ listQuery' = listQuery
          /\ pageCache' = pageCache
          /\ errorMessage' = <<"Drop cancelled - task returned to original position">>]_vars

\* a drag of a loaded board was dropped outside every column
C13_Witness ==
    /\ errorMessage = <<"Drop cancelled - task returned to original position">>
    /\ dndActive = NoTask
    /\ muts = <<>>
    /\ listQuery.hasData
    /\ storage = SeedTasks

(***************************************************************************)
(* C14: when the move issued by a drop on another stage succeeds in the    *)
(* store, the stored task has the drop target as its column and the        *)
(* success notice names the task's title and the target's display name.    *)
(***************************************************************************)
C14_MoveSucceeds ==
    [][\A m \in 1..Len(muts) :
          (muts[m].status = "pending" /\ muts'[m].status = "success"
              /\ muts[m].source = "drag") =>
              /\ \E k \in 1..Len(storage') :
                    /\ storage'[k].id = muts[m].id
                    /\ storage'[k].column = muts[m].updates.column
              /\ successMessage' = MovedMessage(muts[m].title, muts[m].updates.column)]_vars

(***************************************************************************)
(* C15: when the seed fetch of a store that is not yet initialized fails,  *)
(* the store is marked initialized with an empty collection and the        *)
(* operation that triggered the fetch goes on to its body; once the store  *)
(* is initialized no operation issues a seed fetch.                        *)
(***************************************************************************)
C15_SeedFailureUsable ==
    [][/\ \A i \in CallSlots :
             (FetchFail(i) /\ ~initFlag) =>
                 /\ initFlag'
                 /\ storage' = <<>>
                 /\ calls'[i].pc = "body"
       /\ initFlag => fetchCount' = fetchCount
       /\ \A i \in CallSlots : calls'[i].result # "seederror"]_vars

\* the one seed fetch failed, and both operations completed on the empty store
C15_Witness ==
    /\ initFlag
    /\ storage = <<>>
    /\ fetchCount = 1
    /\ \A i \in CallSlots : calls[i].pc = "done"

(***************************************************************************)
(* C16: once the store is marked initialized, the seed data is not written *)
(* over the persisted collection: every task that is persisted is still    *)
(* there, as persisted, after the completion of a seed fetch that was      *)
(* started before the initialization.                                      *)
(***************************************************************************)
C16_NoSeedOverwrite ==
    [][\A i \in CallSlots :
          (JsonDone(i) /\ initFlag) =>
              \A k \in 1..Len(storage) :
                  \E j \in 1..Len(storage') : storage'[j] = storage[k]]_vars

(***************************************************************************)
(* C17: get, update and delete of an id that is not in the collection fail *)
(* with NotFound (status 404) and leave the collection as it was.          *)
(***************************************************************************)
C17_AbsentIdNotFound ==
    [][\A i \in CallSlots :
          (/\ Body(i)
           /\ calls[i].op \in {"get", "update", "delete"}
           /\ calls[i].id \notin Ids(storage)) =>
              /\ calls'[i].result = "notfound"
              /\ storage' = storage]_vars

\* a delete of an id that is gone was answered NotFound on a non-empty collection
C17_Witness ==
    \E i \in CallSlots :
        /\ calls[i].pc = "done"
        /\ calls[i].op = "delete"
        /\ calls[i].result = "notfound"
        /\ storage # <<>>

OnDragStart_NoFlag(task) ==
    /\ task \in RenderedTasks
    /\ dndActive' = task
    /\ draggedTask' = task
    /\ UNCHANGED <<storeVars, pageVars, isDragging, dragOverColumn, formVars, searchVars,
                   noticeVars, dialogVars, queryVars, mutVars>>

\* handleDragStart, called with the task of the event's active draggable
OnDragStart(task) ==
    /\ task \in RenderedTasks
    /\ dndActive' = task
    /\ draggedTask' = task
    /\ isDragging' = TRUE
    /\ UNCHANGED <<storeVars, pageVars, dragOverColumn, formVars, searchVars, noticeVars,
                   dialogVars, queryVars, mutVars>>

NextDrag ==
    \/ ListFetchDone
    \/ CancelledCallDone
    \/ \E m \in 1..MaxMuts, writeOk \in BOOLEAN : Settle(m, writeOk)
    \/ HandleCloseSnackbar
    \/ \E t \in RenderedTasks : OnDragStart(t)
    \/ \E over \in DropTargets : HandleDragOver(over)
    \/ \E over \in DropTargets : HandleDragEnd(over)

SpecDrag == InitBoard /\ [][NextDrag]_vars

(***************************************************************************)
(* C19: at most one drag session is active: a drag start is accepted only  *)
(* from idle, where it snapshots the task and enters dragging with no      *)
(* hovered column; a drag start received while dragging does not replace   *)
(* the session's task.                                                     *)
(***************************************************************************)
C19_OneDragSession ==
    [][/\ (~isDragging /\ isDragging') =>
              (draggedTask' # NoTask /\ dragOverColumn' = NoTarget)
       /\ (isDragging /\ isDragging') => draggedTask' = draggedTask]_vars

(***************************************************************************)
(* C20: a cache key has at most one store call in flight at a time: a      *)
(* read of a key whose call is pending issues no second store call.        *)
(***************************************************************************)
C20_OneCallPerKey == InFlightListCalls <= 1

\* the mutationFn of a mutation's hook, run on the stored collection
MutationFn(mu) ==
    CASE mu.kind = "create" -> createTask(storage, mu.updates)
      [] mu.kind = "update" -> updateTask(storage, mu.id, mu.updates)
      [] mu.kind = "delete" -> deleteTask(storage, mu.id)

(***************************************************************************)
(* C21: when the write of the collection fails during a create, update or  *)
(* delete, the mutation ends in error, the stored collection is the one    *)
(* before the operation, and the list entry is back at the value it had    *)
(* before the mutation's optimistic change.                                *)
(***************************************************************************)
C21_WriteFailureRollsBack ==
    [][\A m \in 1..Len(muts) :
          (/\ muts[m].status = "pending"
           /\ muts'[m].status # "pending"
           /\ MutationFn(muts[m]).status = 200
           /\ storage' # MutationFn(muts[m]).tasks) =>
              /\ muts'[m].status = "error"
              /\ storage' = storage
              /\ listQuery'.hasData = muts[m].previousDefined
              /\ listQuery'.data = muts[m].previousTasks]_vars

(***************************************************************************)
(* The store's writes with their time stamps. `new Date()` reads the       *)
(* clock; the clock never goes back, so a reading is at least every stamp  *)
(* already stored.                                                         *)
(***************************************************************************)
MaxStamp == 2        \* the latest clock reading, in milliseconds
MaxStored == 3       \* longest collection a stamped create is tried on

\* the seed with its stamps
StampedSeed ==
    [i \in 1..Len(SeedTasks) |-> [createdAt |-> 0, updatedAt |-> 0] @@ SeedTasks[i]]

\* the readings `new Date()` can give on a collection
ClockReadings(tasks) ==
    MaxOf({tasks[i].createdAt : i \in 1..Len(tasks)}
            \cup {tasks[i].updatedAt : i \in 1..Len(tasks)}) .. MaxStamp

\* the partial updates tried
Partials ==
    {[column |-> "done"], [title |-> <<"b">>],
     [title |-> <<"a">>, description |-> <<>>]}

\* createTask after the await: createdAt and updatedAt are two `new Date()`
createTaskAt(tasks, draft, created, updated) ==
    LET newTask == [createdAt |-> created, updatedAt |-> updated]
                        @@ createTask(tasks, draft).task
    IN  [tasks |-> Append(tasks, newTask), task |-> newTask, status |-> 200]

\* updateTask after the await: { ...tasks[taskIndex], ...updates, updatedAt }
updateTaskAt(tasks, id, updates, updated) ==
    updateTask(tasks, id, [updatedAt |-> updated] @@ updates)

CreateStamped(column, created, updated) ==
    /\ Len(storage) < MaxStored
    /\ created \in ClockReadings(storage)
    /\ updated \in created..MaxStamp
    /\ storage' = createTaskAt(storage, NewDraft(column), created, updated).tasks
    /\ maxEver' = MaxOf({maxEver} \cup Ids(storage'))
    /\ UNCHANGED <<initFlag, calls, fetchCount, pageVars, uiVars>>

UpdateStamped(id, updates, updated) ==
    /\ updated \in ClockReadings(storage)
    /\ storage' = updateTaskAt(storage, id, updates, updated).tasks
    /\ UNCHANGED <<initFlag, calls, fetchCount, maxEver, pageVars, uiVars>>

DeleteStamped(id) ==
    /\ storage' = deleteTask(storage, id).tasks
    /\ UNCHANGED <<initFlag, calls, fetchCount, maxEver, pageVars, uiVars>>

InitStamps ==
    /\ InitPage
    /\ InitUiIdle
    /\ storage = StampedSeed
    /\ initFlag = TRUE
    /\ calls = [i \in CallSlots |-> IdleCall]
    /\ fetchCount = 0
    /\ maxEver = MaxOf(Ids(StampedSeed))

NextStamps ==
    \/ \E c \in DraftColumns, created, updated \in 0..MaxStamp :
          CreateStamped(c, created, updated)
    \/ \E id \in 1..MaxArgId, updates \in Partials, updated \in 0..MaxStamp :
          UpdateStamped(id, updates, updated)
    \/ \E id \in 1..MaxArgId : DeleteStamped(id)

SpecStamps == InitStamps /\ [][NextStamps]_vars

(***************************************************************************)
(* C22: create(draft) on a collection gives a task whose id is the largest *)
(* id of the collection (0 if none) plus one, whose title, description and *)
(* column are the draft's and whose createdAt equals its updatedAt; the    *)
(* collection afterwards is the one before with that task appended.        *)
(***************************************************************************)
C22_CreateAppends ==
    [][\A c \in DraftColumns, created, updated \in 0..MaxStamp :
          CreateStamped(c, created, updated) =>
              LET task == storage'[Len(storage')]
              IN  /\ storage' = Append(storage, task)
                  /\ task.id = MaxOf(Ids(storage)) + 1
                  /\ task.title = NewDraft(c).title
                  /\ task.description = NewDraft(c).description
                  /\ task.column = c
                  /\ task.createdAt = task.updatedAt]_vars

(***************************************************************************)
(* C30: a successful update(id, partial) changes only the fields named in  *)
(* partial and updatedAt of the task with that id: that task's other       *)
(* fields, every other task and the order of the tasks stay as they were.  *)
(***************************************************************************)
C30_UpdateFrame ==
    [][\A id \in 1..MaxArgId, updates \in Partials, updated \in 0..MaxStamp :
          (UpdateStamped(id, updates, updated) /\ id \in Ids(storage)) =>
              /\ Len(storage') = Len(storage)
              /\ \A k \in 1..Len(storage) :
                    IF storage[k].id = id
                    THEN /\ DOMAIN storage'[k] = DOMAIN storage[k]
                         /\ \A f \in DOMAIN storage[k] :
                               storage'[k][f] =
                                  IF f = "updatedAt" THEN updated
                                  ELSE IF f \in DOMAIN updates THEN updates[f]
                                  ELSE storage[k][f]
                    ELSE storage'[k] = storage[k]]_vars

\* the first of two stored tasks was moved by an update at a later time, the
\* second is as seeded
C30_Witness ==
    /\ Len(storage) = 2
    /\ storage[1].id = 1
    /\ storage[1].column = "done"
    /\ storage[1].title = SeedTasks[1].title
    /\ storage[1].updatedAt > storage[1].createdAt
    /\ storage[2] = StampedSeed[2]

\* text contains needle as a substring, letter case set aside
ContainsIgnoreCase(text, needle) ==
    \E i \in 0..(Len(text) - Len(needle)) :
        \A j \in 1..Len(needle) : Lower(text[i + j]) = Lower(needle[j])

\* the tasks of the read's stage that the read's search string selects
Selected(task) ==
    /\ task.column = pgQuery.column
    /\ \/ Trim(pgQuery.search) = <<>>
       \/ ContainsIgnoreCase(task.title, Trim(pgQuery.search))
       \/ ContainsIgnoreCase(task.description, Trim(pgQuery.search))

C24_StagesPartition ==
    /\ \A k \in 1..Len(storage) : storage[k].column \in Columns
    /\ Len(FilterTasks(storage, "backlog", <<>>))
          + Len(FilterTasks(storage, "in-progress", <<>>))
          + Len(FilterTasks(storage, "review", <<>>))
          + Len(FilterTasks(storage, "done", <<>>)) = Len(storage)

\* a task was created and the first seed task was moved to Done
C24_Witness ==
    /\ Len(storage) = 3
    /\ storage[1].column = "done"
    /\ \A m \in 1..Len(muts) : muts[m].status = "success"

(***************************************************************************)
(* C25: a mutation whose store call keeps failing with a transient error   *)
(* is attempted at most 2 times in all: once it has failed twice it is not *)
(* run again and the error is surfaced.                                    *)
(***************************************************************************)
C25_AttemptsBounded ==
    \A m \in 1..Len(muts) : muts[m].failureCount + 1 <= 2

(***************************************************************************)
(* C26: when two updates or deletes have both failed and both rollbacks    *)
(* have run, the list entry holds the optimistic change of neither: with   *)
(* no write made, its tasks are the stored ones.                           *)
(***************************************************************************)
C26_NoOptimisticLeftover ==
    (/\ Len(muts) = 2
     /\ \A m \in 1..2 : muts[m].status = "error" /\ muts[m].kind \in {"update", "delete"}
     /\ listQuery.hasData) =>
        listQuery.data = fetchTasks(storage)

(***************************************************************************)
(* The store once it is initialized: calls overlap, none fetches the seed. *)
(***************************************************************************)
InitReady ==
    /\ InitPage
    /\ InitUiIdle
    /\ storage = SeedTasks
    /\ initFlag = TRUE
    /\ calls = [i \in CallSlots |-> IdleCall]
    /\ fetchCount = 1
    /\ maxEver = MaxOf(Ids(SeedTasks))

NextReady ==
    \/ \E i \in CallSlots : StartCall(i, "list", 0, "backlog")
    \/ \E i \in CallSlots, c \in DraftColumns : StartCall(i, "create", 0, c)
    \/ \E i \in CallSlots, id \in 1..MaxArgId, c \in MoveColumns :
          StartCall(i, "update", id, c)
    \/ \E i \in CallSlots, id \in 1..MaxArgId : StartCall(i, "delete", id, "backlog")
    \/ \E i \in CallSlots, id \in 1..MaxArgId : StartCall(i, "get", id, "backlog")
    \/ \E i \in CallSlots : Body(i)

SpecReady == InitReady /\ [][NextReady]_vars

\* what a call does to a collection when it runs alone
RunAlone(tasks, c) ==
    CASE c.op = "create" -> createTask(tasks, NewDraft(c.column))
      [] c.op = "update" -> updateTask(tasks, c.id, [column |-> c.column])
      [] c.op = "delete" -> deleteTask(tasks, c.id)
      [] c.op = "get" -> fetchTask(tasks, c.id)
      [] OTHER -> [tasks |-> tasks, task |-> Task(0, <<>>, <<>>, "backlog"), status |-> 200]

\* the answer a call recorded is the one of r
SameAnswer(c, r) ==
    /\ c.result = IF r.status = 200 THEN "ok" ELSE "notfound"
    /\ c.op = "create" => c.id = r.task.id

\* the orders in which the calls can be run one after the other
CallOrders ==
    { order \in [CallSlots -> CallSlots] : \A i, j \in CallSlots : i # j => order[i] # order[j] }

\* the calls from position k on, run alone in the given order on tasks, record the
\* answers they recorded and leave the stored collection
RECURSIVE Serial(_, _, _)
Serial(tasks, order, k) ==
    IF k > MaxCalls THEN tasks = storage
    ELSE LET r == RunAlone(tasks, calls[order[k]])
         IN  SameAnswer(calls[order[k]], r) /\ Serial(r.tasks, order, k + 1)

(***************************************************************************)
(* C27: on an initialized store overlapping calls are atomic with respect  *)
(* to each other: when all have completed, the collection and each call's  *)
(* answer are those of the calls run one after the other in some order    *)
(* (no successful write is lost), and two creates have distinct ids.       *)
(***************************************************************************)
C27_CallsSerialize ==
    (\A i \in CallSlots : calls[i].pc = "done") =>
        /\ \E order \in CallOrders : Serial(SeedTasks, order, 1)
        /\ \A i, j \in CallSlots :
              (i # j /\ calls[i].op = "create" /\ calls[j].op = "create") =>
                  calls[i].id # calls[j].id

(***************************************************************************)
(* Page requests: handlePageChange called with any page number.            *)
(***************************************************************************)
\* the largest page number asked for
MaxPage == 3

PageArgs == 0..MaxPage

\* handlePageChange(page) of a column, as a function of its argument: the
\* store's setCurrentPage, then the column's hook asks for the new key
GoToPage(c, page) ==
    /\ c \in MountedColumns
    /\ CommitSearchState(setCurrentPage(SearchState, c, page))
    /\ UNCHANGED <<storeVars, pageVars, dragVars, formVars, localValue, timerPending,
                   timerElapsed,
                   noticeVars, dialogVars, listQuery, mutVars>>

NextPages ==
    \/ \E c \in PagedColumns : PageFetchDone(c)
    \/ \E c \in PagedColumns, page \in PageArgs : GoToPage(c, page)

\* the paginated columns under page requests of any number
SpecPages == InitColumns /\ [][NextPages]_vars

\* the page of 1..max(1, totalPages) nearest to page
NearestPage(page, totalPages) ==
    IF page < 1 THEN 1
    ELSE IF totalPages < 1 THEN 1
    ELSE IF page > totalPages THEN totalPages
    ELSE page

(***************************************************************************)
(* C28: a page request for column c with page p stores as currentPage, and *)
(* asks the cache for, the page of 1..max(1, totalPages) nearest to p,     *)
(* where totalPages is that of the column under the committed search; a p  *)
(* below 1 or above totalPages is never stored itself.                     *)
(***************************************************************************)
C28_GoToPageClamps ==
    [][\A c \in PagedColumns, p \in PageArgs :
          GoToPage(c, p) =>
              LET totalPages ==
                      fetchTasksByColumn(storage, c, 1, PageSize, ColumnSearch).totalPages
              IN  /\ columnPaginationState'[c].currentPage = NearestPage(p, totalPages)
                  /\ paginatedColumn(c)'.page = NearestPage(p, totalPages)]_vars

(***************************************************************************)
(* C29: at the step that starts a mutation the snapshot kept for rollback  *)
(* is the list entry as it was just before, the entry becomes the          *)
(* optimistic change of exactly that snapshot, and the store operation has *)
(* not been issued: the mutation is pending with no run counted and the    *)
(* stored collection untouched. A store call that then fails at once has   *)
(* the whole snapshot at hand.                                             *)
(***************************************************************************)
C29_SnapshotThenChangeThenCall ==
    [][Len(muts') = Len(muts) + 1 =>
          LET mu == muts'[Len(muts')]
              snapshot == [listQuery' EXCEPT !.hasData = mu.previousDefined,
                                             !.data = mu.previousTasks]
              changed ==
                  CASE mu.kind = "create" ->
                          OptimisticCreate(snapshot, mu.updates, DateNow(Len(muts')))
                    [] mu.kind = "update" -> OptimisticUpdate(snapshot, mu.id, mu.updates)
                    [] mu.kind = "delete" -> OptimisticDelete(snapshot, mu.id)
          IN  /\ mu.previousDefined = listQuery.hasData
              /\ mu.previousTasks = listQuery.data
              /\ listQuery' = changed
              /\ mu.status = "pending"
              /\ mu.failureCount = 0
              /\ storage' = storage]_vars

\* a mutation has started on a loaded list: it holds the list as stored, the
\* entry shows its optimistic change, and its store call has not run
C29_Witness ==
    /\ Len(muts) = 1
    /\ muts[1].status = "pending"
    /\ muts[1].failureCount = 0
    /\ muts[1].previousDefined
    /\ muts[1].previousTasks = fetchTasks(storage)
    /\ listQuery.hasData
    /\ listQuery.data # muts[1].previousTasks

(***************************************************************************)
(* C31: a drag that ends on the column the dragged task is in issues no    *)
(* mutation, changes no cached entry and no stored task, and shows no      *)
(* success or error notice.                                                *)
(***************************************************************************)
C31_SameColumnDropIsNoOp ==
    [][\A over \in Columns :
          (HandleDragEnd(over) /\ dndActive.column = over) =>
              /\ muts' = muts
              /\ observed' = observed
              /\ storage' = storage
              /\ listQuery' = listQuery
              /\ pageCache' = pageCache
              /\ successMessage' = successMessage
              /\ errorMessage' = errorMessage]_vars

\* a card of a loaded board is held over its own column, no mutation issued
C31_Witness ==
    /\ dndActive # NoTask
    /\ dragOverColumn = dndActive.column
    /\ listQuery.hasData
    /\ dndActive.column = storage[IndexOfId(storage, dndActive.id)].column
    /\ muts = <<>>

(***************************************************************************)
(* The search field under the clock: the debounce timer's callback runs    *)
(* when the timer set by the last change has run its 300 ms.               *)
(***************************************************************************)
\* the delay of the SearchBar's setTimeout
DebounceMs == 300

\* the step of the clock
TickMs == 100

\* the values typed into the search field
TypedValues == {<<>>, <<"a">>, <<"a", " ">>, <<"a", "b">>}

\* time passes while a timer is armed
Tick ==
    /\ timerPending
    /\ timerElapsed < DebounceMs
    /\ timerElapsed' = timerElapsed + TickMs
    /\ UNCHANGED <<storeVars, pageVars, dragVars, formVars, searchQuery,
                   columnPaginationState, localValue, timerPending, resetFromPage,
                   noticeVars, dialogVars, queryVars, mutVars>>

\* the timer's callback, run by the event loop once the delay has passed
TimerCallback ==
    /\ timerElapsed >= DebounceMs
    /\ DebounceFire

NextDebounce ==
    \/ ListFetchDone
    \/ \E v \in TypedValues : HandleInputChange(v)
    \/ Tick
    \/ TimerCallback
    \/ HandleClear

SpecDebounce == InitBoard /\ [][NextDebounce]_vars

PartialsWithId == Partials \cup {[id |-> i] : i \in 1..MaxArgId}

\* the clock is left at its last reading: the time stamps play no part here
NextIds ==
    \/ \E c \in DraftColumns : CreateStamped(c, MaxStamp, MaxStamp)
    \/ \E id \in 1..MaxArgId, updates \in PartialsWithId :
          UpdateStamped(id, updates, MaxStamp)
    \/ \E id \in 1..MaxArgId : DeleteStamped(id)

SpecIds == InitStamps /\ [][NextIds]_vars

(***************************************************************************)
(* C34: after every create, update and delete the ids of the stored tasks  *)
(* are pairwise distinct, and an update leaves the id of the task it is    *)
(* applied to as it was.                                                   *)
(***************************************************************************)
C34_IdsDistinctAndKept ==
    [][/\ \A i, j \in 1..Len(storage') : i # j => storage'[i].id # storage'[j].id
       /\ \A id \in 1..MaxArgId, updates \in PartialsWithId :
             (UpdateStamped(id, updates, MaxStamp) /\ id \in Ids(storage)) =>
                 storage'[IndexOfId(storage, id)].id = id]_vars

(***************************************************************************)
(* C35: after every drag handler isDragging is true exactly when           *)
(* draggedTask is set, and while no drag is going on dragOverColumn is     *)
(* unset; a hover changes neither draggedTask nor any task's column,       *)
(* stored or cached.                                                       *)
(***************************************************************************)
C35_DragStateConsistent ==
    [][/\ isDragging' <=> (draggedTask' # NoTask)
       /\ ~isDragging' => dragOverColumn' = NoTarget
       /\ \A over \in DropTargets :
             HandleDragOver(over) =>
                 /\ draggedTask' = draggedTask
                 /\ storage' = storage
                 /\ listQuery' = listQuery
                 /\ pageCache' = pageCache]_vars

\* a drag is going on and the card is held over another column than its own
C35_Witness ==
    /\ isDragging
    /\ draggedTask # NoTask
    /\ dragOverColumn = "done"
    /\ draggedTask.column = "backlog"

(***************************************************************************)
(* kanbanStore: the task counts of the pagination state.                   *)
(***************************************************************************)
\* the largest totalTasks followed
MaxCount == 2

\* an updateTaskCountsAfterDrag that lowers the source's count whatever it is
updateTaskCountsAfterDrag_NoFloor(state, sourceColumn, targetColumn) ==
    LET lowered == [state EXCEPT ![sourceColumn].totalTasks = @ - 1]
    IN  [lowered EXCEPT ![targetColumn].totalTasks = @ + 1]

\* updateTaskCountsAfterDrag, on the store's columnPaginationState: the target's
\* count is read after the source's has been written
updateTaskCountsAfterDrag(state, sourceColumn, targetColumn) ==
    LET lowered == IF state[sourceColumn].totalTasks > 0
                   THEN [state EXCEPT ![sourceColumn].totalTasks = @ - 1]
                   ELSE state
    IN  [lowered EXCEPT ![targetColumn].totalTasks = @ + 1]

\* setColumnPaginationState(column, state)
setColumnPaginationState(current, column, state) ==
    [current EXCEPT ![column] =
        [k \in DOMAIN current[column] |->
            IF k \in DOMAIN state THEN state[k] ELSE current[column][k]]]

\* the partial pagination states written
PaginationPartials == {[isLoading |-> TRUE], [currentPage |-> 2, totalPages |-> 2]}

UpdateTaskCountsAfterDrag(sourceColumn, targetColumn) ==
    /\ columnPaginationState[targetColumn].totalTasks < MaxCount
    /\ columnPaginationState' =
          updateTaskCountsAfterDrag(columnPaginationState, sourceColumn, targetColumn)
    /\ UNCHANGED <<storeVars, pageVars, dragVars, formVars, searchQuery, localValue,
                   timerPending, timerElapsed, resetFromPage, noticeVars, dialogVars,
                   queryVars, mutVars>>

SetColumnPaginationState(column, state) ==
    /\ columnPaginationState' =
          setColumnPaginationState(columnPaginationState, column, state)
    /\ UNCHANGED <<storeVars, pageVars, dragVars, formVars, searchQuery, localValue,
                   timerPending, timerElapsed, resetFromPage, noticeVars, dialogVars,
                   queryVars, mutVars>>

NextCounts ==
    \/ \E sourceColumn, targetColumn \in Columns :
          UpdateTaskCountsAfterDrag(sourceColumn, targetColumn)
    \/ \E column \in PagedColumns, state \in PaginationPartials :
          SetColumnPaginationState(column, state)

SpecCounts == InitBoard /\ [][NextCounts]_vars

\* no count is negative, and nothing but totalTasks of the two columns changes
CountsFrame(sourceColumn, targetColumn) ==
    \A c \in Columns :
        /\ columnPaginationState'[c].totalTasks >= 0
        /\ columnPaginationState'[c].currentPage = columnPaginationState[c].currentPage
        /\ columnPaginationState'[c].totalPages = columnPaginationState[c].totalPages
        /\ columnPaginationState'[c].isLoading = columnPaginationState[c].isLoading
        /\ c \notin {sourceColumn, targetColumn} =>
              columnPaginationState'[c].totalTasks = columnPaginationState[c].totalTasks

(***************************************************************************)
(* C36, as stated: updateTaskCountsAfterDrag(source, target) lowers the    *)
(* source's totalTasks by 1 unless it is 0, raises the target's by 1,      *)
(* makes no count negative and changes nothing else.                       *)
(***************************************************************************)
C36_CountsAdjusted ==
    [][\A sourceColumn, targetColumn \in Columns :
          UpdateTaskCountsAfterDrag(sourceColumn, targetColumn) =>
              /\ columnPaginationState'[sourceColumn].totalTasks =
                    IF columnPaginationState[sourceColumn].totalTasks = 0 THEN 0
                    ELSE columnPaginationState[sourceColumn].totalTasks - 1
              /\ columnPaginationState'[targetColumn].totalTasks =
                    columnPaginationState[targetColumn].totalTasks + 1
              /\ CountsFrame(sourceColumn, targetColumn)]_vars

(***************************************************************************)
(* C36, amended: for two different columns it is as stated; with the       *)
(* source as the target the column's totalTasks stays as it is, or becomes *)
(* 1 when it was 0; in both cases no count is negative and nothing else    *)
(* changes.                                                                *)
(***************************************************************************)
C36_CountsAdjustedBetweenColumns ==
    [][\A sourceColumn, targetColumn \in Columns :
          UpdateTaskCountsAfterDrag(sourceColumn, targetColumn) =>
              /\ IF sourceColumn # targetColumn
                 THEN /\ columnPaginationState'[sourceColumn].totalTasks =
                            IF columnPaginationState[sourceColumn].totalTasks = 0 THEN 0
                            ELSE columnPaginationState[sourceColumn].totalTasks - 1
                      /\ columnPaginationState'[targetColumn].totalTasks =
                            columnPaginationState[targetColumn].totalTasks + 1
                 ELSE columnPaginationState'[sourceColumn].totalTasks =
                            IF columnPaginationState[sourceColumn].totalTasks = 0 THEN 1
                            ELSE columnPaginationState[sourceColumn].totalTasks
              /\ CountsFrame(sourceColumn, targetColumn)]_vars

\* counts have been moved between columns whose page and loading state are not
\* the initial ones
C36_Witness ==
    /\ columnPaginationState["backlog"].totalTasks = 0
    /\ columnPaginationState["done"].totalTasks = MaxCount
    /\ columnPaginationState["review"].totalTasks = 1
    /\ columnPaginationState["backlog"].currentPage = 2
    /\ columnPaginationState["done"].isLoading

(***************************************************************************)
(* The board's memo against the store's list operation, over the search    *)
(* strings the store accepts and the collections creates and moves give.   *)
(***************************************************************************)
\* fetchTasks({ search }) after the await, on a collection: no column, no page
fetchTasksSearch(tasks, search) ==
    IF SearchActive(search)
    THEN SelectSeq(tasks, LAMBDA task : MatchesSearch(task, search))
    ELSE tasks

\* the store's setSearchQuery, called with any string
SetSearchQuery(query) ==
    /\ query # searchQuery
    /\ CommitSearchState(setSearchQuery(SearchState, query))
    /\ UNCHANGED <<storeVars, pageVars, dragVars, formVars, localValue, timerPending,
                   timerElapsed, noticeVars, dialogVars, listQuery, mutVars>>

NextFilter ==
    \/ ListFetchDone
    \/ CancelledCallDone
    \/ \E m \in 1..MaxMuts, writeOk \in BOOLEAN : Settle(m, writeOk)
    \/ HandleAddTask
    \/ \E c \in DraftColumns : HandleTaskSubmit(c)
    \/ \E t \in RenderedTasks : HandleDragStart(t)
    \/ \E over \in DropTargets : HandleDragEnd(over)
    \/ \E query \in SearchStrings : SetSearchQuery(query)

SpecFilter == InitBoard /\ [][NextFilter]_vars

MinTitleLength == 3
MaxTitleLength == 100
MinDescriptionLength == 10
MaxDescriptionLength == 500

\* n letters between blanks
Typed(before, n, after) ==
    [i \in 1..before |-> " "] \o [i \in 1..n |-> "x"] \o [i \in 1..after |-> " "]

\* the titles and descriptions typed: blank, and around each limit, with and
\* without blanks around them
FormTitles ==
    {Typed(1, 0, 0), Typed(0, MinTitleLength - 1, 1), Typed(1, MinTitleLength, 1),
     Typed(0, MaxTitleLength, 1), Typed(0, MaxTitleLength + 1, 0)}

FormDescriptions ==
    {Typed(1, MinDescriptionLength - 1, 0), Typed(1, MinDescriptionLength, 1),
     Typed(0, MaxDescriptionLength, 0), Typed(0, MaxDescriptionLength + 1, 0)}

FormInputs ==
    [title : FormTitles, description : FormDescriptions, column : DraftColumns]

\* a validateForm that accepts titles of any length above the minimum
validateForm_NoTitleMaximum(data) ==
    (IF Trim(data.title) = <<>> \/ Len(Trim(data.title)) < MinTitleLength
     THEN {"title"} ELSE {})
    \cup
    (IF \/ Trim(data.description) = <<>>
        \/ Len(Trim(data.description)) < MinDescriptionLength
        \/ Len(Trim(data.description)) > MaxDescriptionLength
     THEN {"description"} ELSE {})

\* validateForm: the fields found in error (the column always has a value)
validateForm(data) ==
    (IF \/ Trim(data.title) = <<>>
        \/ Len(Trim(data.title)) < MinTitleLength
        \/ Len(Trim(data.title)) > MaxTitleLength
     THEN {"title"} ELSE {})
    \cup
    (IF \/ Trim(data.description) = <<>>
        \/ Len(Trim(data.description)) < MinDescriptionLength
        \/ Len(Trim(data.description)) > MaxDescriptionLength
     THEN {"description"} ELSE {})

\* TaskForm.handleSubmit on the fields formData, and the board's handleTaskSubmit
\* it calls when validateForm finds no error
TaskFormSubmit(formData) ==
    /\ isTaskFormOpen
    /\ IF validateForm(formData) = {}
       THEN LET taskData == [title |-> Trim(formData.title),
                             description |-> Trim(formData.description),
                             column |-> formData.column]
            IN  IF taskFormMode = "create"
                THEN Mutate("create", 0, taskData, "form", <<>>)
                ELSE /\ selectedTask # NoTask
                     /\ Mutate("update", selectedTask.id, taskData, "form", <<>>)
       ELSE UNCHANGED <<queryVars, mutVars>>
    /\ UNCHANGED <<storeVars, pageVars, dragVars, formVars, searchVars, noticeVars,
                   dialogVars, pageCache, pageFetching>>

NextForm ==
    \/ ListFetchDone
    \/ \E m \in 1..MaxMuts, writeOk \in BOOLEAN : Settle(m, writeOk)
    \/ HandleAddTask
    \/ \E t \in RenderedTasks : HandleCardClick(t)
    \/ \E formData \in FormInputs : TaskFormSubmit(formData)

SpecForm == InitBoard /\ [][NextForm]_vars

\* the trimmed title has 3 to 100 characters, the trimmed description 10 to 500
WithinLimits(formData) ==
    /\ Len(Trim(formData.title)) \in MinTitleLength..MaxTitleLength
    /\ Len(Trim(formData.description)) \in MinDescriptionLength..MaxDescriptionLength

(***************************************************************************)
(* C38: a submit of the task form starts a create or update exactly when   *)
(* the trimmed title has 3 to 100 characters and the trimmed description   *)
(* 10 to 500; the request then carries the trimmed title and description   *)
(* and the chosen column; for any other input nothing is requested and     *)
(* nothing changes.                                                        *)
(***************************************************************************)
C38_SubmitOnlyValidTrimmed ==
    [][\A formData \in FormInputs :
          TaskFormSubmit(formData) =>
              IF WithinLimits(formData)
              THEN /\ Len(muts') = Len(muts) + 1
                   /\ muts'[Len(muts')].kind = IF taskFormMode = "create" THEN "create"
                                               ELSE "update"
                   /\ muts'[Len(muts')].updates.title = Trim(formData.title)
                   /\ muts'[Len(muts')].updates.description = Trim(formData.description)
                   /\ muts'[Len(muts')].updates.column = formData.column
                   /\ Head(muts'[Len(muts')].updates.title) # " "
                   /\ muts'[Len(muts')].updates.title[Len(muts'[Len(muts')].updates.title)] # " "
              ELSE /\ muts' = muts
                   /\ listQuery' = listQuery
                   /\ storage' = storage]_vars

\* a create whose title was typed between blanks has been stored with the three
\* letters of the trimmed title
C38_Witness ==
    /\ Len(muts) >= 1
    /\ muts[1].kind = "create"
    /\ muts[1].status = "success"
    /\ muts[1].updates.title = Typed(0, MinTitleLength, 0)
    /\ Len(muts[1].updates.description) = MinDescriptionLength
    /\ \E i \in 1..Len(storage) : storage[i].title = Typed(0, MinTitleLength, 0)

====
